---- MODULE Spec2Model ----
(***************************************************************************)
(* Host/guest witness-exchange protocol of the circom witness calculator   *)
(* (src/src/witness).  The host code of witness_calculator.rs, circom.rs   *)
(* and mod.rs is modelled step by step, one action per guest call; the     *)
(* guest module is the environment: every call may return or trap, and the *)
(* values it returns are drawn from bounded sets.                          *)
(*                                                                         *)
(* Limbs are scaled down: a limb is a digit in base Radix instead of a     *)
(* 32-bit word, so 2^(32*w) of the source reads Radix^w here, and a 64-bit  *)
(* limb has Bits64 bits.  A word crosses the guest boundary as a signed     *)
(* value (i32) and is cast back to an unsigned limb (u32) by the host.      *)
(***************************************************************************)
EXTENDS Integers, Sequences, FiniteSets, TLC

\* ------------------------------------------------------------------ bounds
Radix == 2          \* limb radix (0x100000000 in the source, scaled down)
MaxN32 == 2         \* largest limb count the guest reports
MaxVals == 2        \* most values bound to one signal name
MaxValue == 5       \* largest input value offered (beyond Radix^MaxN32 - 1)
MaxW == 2           \* largest witness size the guest reports
MaxCalls == 2       \* calculate_witness calls on one calculator
Bits64 == 2         \* bits of a 64-bit limb (64 in the source, scaled down)
MaxRaw == 6         \* largest magnitude of a raw value given to the element map

\* ------------------------------------------------------- bounded input sets
N32s == 0 .. MaxN32
Values == (0 - Radix) .. MaxValue
Names == {<<97>>, <<97, 98>>}             \* "a", "ab" as UTF-8 bytes
Versions == {1, 2}
Moduli == {3, 5}                          \* E::ScalarField::MODULUS
RawValues == (0 - MaxRaw) .. MaxRaw
RawWitnesses == UNION {[1 .. n -> RawValues] : n \in 0 .. MaxW}
VersionDefault == 1                       \* Err(_) => Ok(1) / unwrap_or(1)

AllExports == {"init", "getFieldNumLen32", "getRawPrime", "readSharedRWMemory",
               "writeSharedRWMemory", "setInputSignal", "getWitness",
               "getWitnessSize", "getVersion"}
\* a guest module: complete, or missing exactly one export
ExportSets == {AllExports} \cup {AllExports \ {f} : f \in AllExports}

\* what the guest leaves in its shared region: every word the smallest or
\* the largest limb
GuestLimbs == {0, Radix - 1}
Regions == [1 .. MaxN32 -> GuestLimbs]
ZeroRegion == [k \in 1 .. MaxN32 |-> 0]
Zeros(n) == [k \in 1 .. n |-> 0]

\* ------------------------------------------------------------ pure helpers
RECURSIVE Pow(_, _)
Pow(b, e) == IF e = 0 THEN 1 ELSE b * Pow(b, e - 1)

\* BigInt `%` and `/` truncate toward zero
TruncRem(a, b) == IF a >= 0 THEN a % b ELSE 0 - ((0 - a) % b)
TruncDiv(a, b) == IF a >= 0 THEN a \div b ELSE 0 - ((0 - a) \div b)

RECURSIVE from_array32_loop(_, _, _)
from_array32_loop(arr, k, res) ==
    IF k > Len(arr) THEN res
    ELSE from_array32_loop(arr, k + 1, res * Radix + arr[k])

from_array32(arr) == from_array32_loop(arr, 1, 0)

\* The while loop of to_array32.  c is the source's (0-based) cursor.  The
\* loop panics when c is decremented below 0 (overflow check in a debug
\* build; wrap-around and out-of-bounds index in a release build) and when
\* the remainder is negative (to_u32() is None, unwrap panics).
RECURSIVE to_array32_loop(_, _, _)
to_array32_loop(res, rem, c) ==
    IF rem = 0 THEN [panic |-> FALSE, res |-> res]
    ELSE IF c = 0 THEN [panic |-> TRUE, res |-> res]
    ELSE LET d == TruncRem(rem, Radix) IN
         IF d < 0 THEN [panic |-> TRUE, res |-> res]
         ELSE to_array32_loop([res EXCEPT ![c] = d], TruncDiv(rem, Radix), c - 1)

\* variant: limbs filled from index 0 upward (least-significant word first)
RECURSIVE to_array32_le_loop(_, _, _)
to_array32_le_loop(res, rem, c) ==
    IF rem = 0 THEN [panic |-> FALSE, res |-> res]
    ELSE IF c = Len(res) THEN [panic |-> TRUE, res |-> res]
    ELSE LET d == TruncRem(rem, Radix) IN
         IF d < 0 THEN [panic |-> TRUE, res |-> res]
         ELSE to_array32_le_loop([res EXCEPT ![c + 1] = d],
                                 TruncDiv(rem, Radix), c + 1)

to_array32_le(s, size) == to_array32_le_loop(Zeros(size), s, 0)

\* variant: the magnitude of the value is encoded, its sign dropped
to_array32_abs(s, size) ==
    to_array32_loop(Zeros(size), IF s < 0 THEN 0 - s ELSE s, size)

\* variant: the loop also stops when the cursor reaches 0 (silent truncation)
RECURSIVE to_array32_trunc_loop(_, _, _)
to_array32_trunc_loop(res, rem, c) ==
    IF rem = 0 \/ c = 0 THEN [panic |-> FALSE, res |-> res]
    ELSE LET d == TruncRem(rem, Radix) IN
         IF d < 0 THEN [panic |-> TRUE, res |-> res]
         ELSE to_array32_trunc_loop([res EXCEPT ![c] = d],
                                    TruncDiv(rem, Radix), c - 1)

to_array32_trunc(s, size) == to_array32_trunc_loop(Zeros(size), s, size)

to_array32(s, size) == to_array32_loop(Zeros(size), s, size)

\* FnvHasher::default() / write / finish: 64-bit FNV-1a.  A 64-bit word is
\* held as four 16-bit limbs, least significant first; a u32 is the pair
\* <<high 16 bits, low 16 bits>>.
RECURSIVE Xor(_, _)
Xor(a, b) ==
    IF a = 0 THEN b
    ELSE IF b = 0 THEN a
    ELSE (((a % 2) + (b % 2)) % 2) + 2 * Xor(a \div 2, b \div 2)

FnvMod == 65536         \* one 16-bit limb of the u64 hash
FnvHalf == 256          \* 2^8: with two limbs, the 2^40 of the FNV prime
FnvPrime == 435         \* 0x1b3: the FNV prime is 2^40 + 0x1b3
\* 0xcbf29ce484222325
FnvOffsetBasis == <<8997, 33826, 40164, 52210>>

\* carry propagation over the limbs of a sum, modulo 2^64
RECURSIVE Carry64(_, _, _)
Carry64(sum, k, c) ==
    IF k > Len(sum) THEN <<>>
    ELSE <<(sum[k] + c) % FnvMod>> \o Carry64(sum, k + 1, (sum[k] + c) \div FnvMod)

\* h.wrapping_mul(0x100000001b3) = h * 0x1b3 + (h << 40), modulo 2^64
FnvMul(h) ==
    Carry64([k \in 1 .. 4 |-> h[k] * FnvPrime
                               + (IF k > 2 THEN h[k - 2] * FnvHalf ELSE 0)],
            1, 0)

\* variant: FNV-1, the multiplication before the xor
RECURSIVE fnv_loop_fnv1(_, _, _)
fnv_loop_fnv1(inp, k, h) ==
    IF k > Len(inp) THEN h
    ELSE fnv_loop_fnv1(inp, k + 1,
                       [FnvMul(h) EXCEPT ![1] = Xor(FnvMul(h)[1], inp[k])])

\* hasher.write(bytes): for each byte, hash ^= byte; hash *= prime
RECURSIVE fnv_loop(_, _, _)
fnv_loop(inp, k, h) ==
    IF k > Len(inp) THEN h
    ELSE fnv_loop(inp, k + 1, FnvMul([h EXCEPT ![1] = Xor(h[1], inp[k])]))

\* ((h >> 32) as u32, h as u32)
fnv(inp) ==
    LET h == fnv_loop(inp, 1, FnvOffsetBasis)
    IN <<<<h[4], h[3]>>, <<h[2], h[1]>>>>

\* `v as i32` / `result as u32`: a limb as the signed value that crosses the
\* guest boundary, and back
AsI32(x) == IF 2 * x >= Radix THEN x - Radix ELSE x

\* variant: the returned word is used as the signed value it arrived as
AsU32_signed(y) == y

AsU32(y) == IF y < 0 THEN y + Radix ELSE y

Abs(x) == IF x < 0 THEN 0 - x ELSE x

\* prime.bits(): the bit length of the magnitude of an integer
RECURSIVE Bits(_)
Bits(p) == IF p = 0 THEN 0 ELSE 1 + Bits(Abs(p) \div 2)

\* ------------------------------------------------------------------- state
VARIABLES
    pc,             \* position of the host code
    result,         \* "none" | "ok" | "err" | "panic"
    panicAt,        \* the guest entry or host function that panicked
    ret,            \* the witness returned by the last successful call
    exports,        \* export names of the guest module
    instance,       \* self.instance: id of the guest instance in use (0: none)
    insts,          \* number of guest instances created so far
    circom_version, \* WitnessCalculator.circom_version
    n64,            \* WitnessCalculator.n64
    region,         \* the guest's shared transfer region
    sanity_check,   \* argument of calculate_witness
    n32,            \* local n32
    name,           \* current input name
    msb, lsb,       \* fnv(name)
    i,              \* outer loop index
    value,          \* current input value
    f_arr,          \* to_array32(value, n32)
    j,              \* inner loop index
    arr,            \* read buffer
    w,              \* witness under construction
    witness_size,   \* local witness_size
    callNo,         \* history: number of calculate_witness calls started
    callInst,       \* history: the guest instance each call ran on
    xfer,           \* history: guest calls made for the current input value
    trapped,        \* history: some guest call of this run trapped
    afterTrap,      \* history: a guest call was made after a trap
    wsnap,          \* history: per getWitness call, its index and the region
                    \* words 0..n32-1 the guest left
    sizeQueried,    \* history: getWitnessSize was called in this call
    inits,          \* history: the arguments of the init calls of this call
    rawPrimeCalls,  \* history: number of getRawPrime calls made
    versionReturned,\* history: what the guest's getVersion returned (0: none)
    modulus,        \* E::ScalarField::MODULUS of calculate_witness_element
    witness,        \* its output: the canonical representative of each element
    reps,           \* history: the BigUint handed to E::ScalarField::from
    negBranch       \* history: the Sign::Minus branch ran in this call

calcVars == <<exports, instance, insts, circom_version, n64>>
inVars == <<name, msb, lsb, value, f_arr>>
outVars == <<w, witness_size, wsnap, sizeQueried>>
histVars == <<callNo, callInst, xfer, trapped, afterTrap>>
loadHist == <<rawPrimeCalls, versionReturned>>
elemVars == <<modulus, witness, reps, negBranch>>
auxVars == <<inits, rawPrimeCalls, versionReturned, modulus, witness, reps,
             negBranch>>
vars == <<pc, result, panicAt, ret, exports, instance, insts, circom_version,
          n64, region, sanity_check, n32, name, msb, lsb, i, value, f_arr, j,
          arr, w, witness_size, callNo, callInst, xfer, trapped, afterTrap, wsnap,
          sizeQueried, inits, rawPrimeCalls, versionReturned, modulus, witness,
          reps, negBranch>>

Init ==
    /\ pc = "unloaded"
    /\ result = "none"
    /\ panicAt = "none"
    /\ ret = <<>>
    /\ exports \in ExportSets
    /\ instance = 0
    /\ insts = 0
    /\ circom_version = 0
    /\ n64 = 0
    /\ region = ZeroRegion
    /\ sanity_check = FALSE
    /\ n32 = 0
    /\ name = <<>>
    /\ msb = <<0, 0>>
    /\ lsb = <<0, 0>>
    /\ i = 0
    /\ value = 0
    /\ f_arr = <<>>
    /\ j = 0
    /\ arr = <<>>
    /\ w = <<>>
    /\ witness_size = 0
    /\ callNo = 0
    /\ callInst = <<>>
    /\ xfer = <<>>
    /\ trapped = FALSE
    /\ afterTrap = FALSE
    /\ wsnap = <<>>
    /\ sizeQueried = FALSE
    /\ inits = <<>>
    /\ rawPrimeCalls = 0
    /\ versionReturned = 0
    /\ modulus = 0
    /\ witness = <<>>
    /\ reps = <<>>
    /\ negBranch = FALSE

\* A panic (expect / unwrap / arithmetic) ends the run: nothing is returned.
PanicAt(site) ==
    /\ pc' = "panicked"
    /\ result' = "panic"
    /\ panicAt' = site

\* find_function(..).expect(..): a missing export panics before any call
Missing(fn) ==
    /\ fn \notin exports
    /\ PanicAt(fn)
    /\ UNCHANGED <<trapped, afterTrap>>

\* func.call(..).unwrap(): the guest is entered and traps
Trap(fn) ==
    /\ fn \in exports
    /\ PanicAt(fn)
    /\ trapped' = TRUE
    /\ afterTrap' = (afterTrap \/ trapped)

\* the guest is entered and returns
Returns(fn) ==
    /\ fn \in exports
    /\ afterTrap' = (afterTrap \/ trapped)

\* ---------------------------------------------------- load (from_module)
\* variant: the load looks up getWitnessSize and fails when it is missing
FromModule_validates ==
    /\ pc = "unloaded"
    /\ \/ /\ "getWitnessSize" \in exports
          /\ instance' = insts + 1
          /\ insts' = insts + 1
          /\ pc' = "getVersion"
          /\ UNCHANGED <<result, panicAt>>
       \/ /\ "getWitnessSize" \in exports
          /\ pc' = "failed"
          /\ result' = "err"
          /\ UNCHANGED <<instance, insts, panicAt>>
       \/ /\ "getWitnessSize" \notin exports
          /\ PanicAt("getWitnessSize")
          /\ UNCHANGED <<instance, insts>>
    /\ UNCHANGED <<ret, exports, circom_version, n64, region, sanity_check,
                   n32, i, j, arr>>
    /\ UNCHANGED <<inVars, outVars, histVars>>
    /\ UNCHANGED auxVars

\* Instance::new(&module, &import_object)?  (the only `?` that can return Err)
FromModule ==
    /\ pc = "unloaded"
    /\ \/ /\ instance' = insts + 1
          /\ insts' = insts + 1
          /\ pc' = "getVersion"
          /\ UNCHANGED result
       \/ /\ pc' = "failed"
          /\ result' = "err"
          /\ UNCHANGED <<instance, insts>>
    /\ UNCHANGED <<panicAt, ret, exports, circom_version, n64, region,
                   sanity_check, n32, i, j, arr>>
    /\ UNCHANGED <<inVars, outVars, histVars>>
    /\ UNCHANGED auxVars

\* variant: the version is taken to be the default whatever the guest returns
VersionOf_default(v) == 1

\* Ok(func.call().unwrap() as u32): the version is what the guest returned
VersionOf(v) == v

\* instance.get_version().unwrap_or(1); get_version is Ok(1) without the export
GetVersion ==
    /\ pc = "getVersion"
    /\ \/ /\ "getVersion" \notin exports
          /\ circom_version' = VersionDefault
          /\ pc' = "loadFieldNumLen32"
          /\ UNCHANGED <<result, panicAt, trapped, afterTrap, versionReturned>>
       \/ /\ Returns("getVersion")
          /\ \E v \in Versions :
                /\ versionReturned' = v
                /\ circom_version' = VersionOf(v)
          /\ pc' = "loadFieldNumLen32"
          /\ UNCHANGED <<result, panicAt, trapped>>
       \/ /\ Trap("getVersion")
          /\ UNCHANGED <<circom_version, versionReturned>>
    /\ UNCHANGED <<ret, exports, instance, insts, n64, region, sanity_check,
                   n32, i, j, arr, callNo, callInst, xfer>>
    /\ UNCHANGED <<inVars, outVars>>
    /\ UNCHANGED <<inits, rawPrimeCalls, elemVars>>

\* new_circom2: let n32 = instance.get_field_num_len32()?
LoadFieldNumLen32 ==
    /\ pc = "loadFieldNumLen32"
    /\ \/ /\ Returns("getFieldNumLen32")
          /\ \E n \in N32s : n32' = n
          /\ pc' = "getRawPrime"
          /\ UNCHANGED <<result, panicAt, trapped>>
       \/ /\ Trap("getFieldNumLen32")
          /\ UNCHANGED n32
       \/ /\ Missing("getFieldNumLen32")
          /\ UNCHANGED n32
    /\ UNCHANGED <<ret, region, sanity_check, i, j, arr, callNo, callInst, xfer>>
    /\ UNCHANGED <<calcVars, inVars, outVars>>
    /\ UNCHANGED auxVars

\* instance.get_raw_prime()?; let mut arr = vec![0; n32]
GetRawPrime ==
    /\ pc = "getRawPrime"
    /\ \/ /\ Returns("getRawPrime")
          /\ \E r \in Regions : region' = r
          /\ arr' = Zeros(n32)
          /\ i' = 0
          /\ pc' = IF n32 = 0 THEN "derive" ELSE "readPrime"
          /\ rawPrimeCalls' = rawPrimeCalls + 1
          /\ UNCHANGED <<result, panicAt, trapped>>
       \/ /\ Trap("getRawPrime")
          /\ rawPrimeCalls' = rawPrimeCalls + 1
          /\ UNCHANGED <<region, arr, i>>
       \/ /\ Missing("getRawPrime")
          /\ UNCHANGED <<region, arr, i, rawPrimeCalls>>
    /\ UNCHANGED <<ret, sanity_check, n32, j, callNo, callInst, xfer>>
    /\ UNCHANGED <<calcVars, inVars, outVars>>
    /\ UNCHANGED <<inits, versionReturned, elemVars>>

\* arr[n32 - i - 1] = instance.read_shared_rw_memory(i)?
ReadPrime ==
    /\ pc = "readPrime"
    /\ \/ /\ Returns("readSharedRWMemory")
          /\ arr' = [arr EXCEPT ![n32 - i] = AsU32(AsI32(region[i + 1]))]
          /\ i' = i + 1
          /\ pc' = IF i + 1 = n32 THEN "derive" ELSE "readPrime"
          /\ UNCHANGED <<result, panicAt, trapped>>
       \/ /\ Trap("readSharedRWMemory")
          /\ UNCHANGED <<arr, i>>
       \/ /\ Missing("readSharedRWMemory")
          /\ UNCHANGED <<arr, i>>
    /\ UNCHANGED <<ret, region, sanity_check, n32, j, callNo, callInst, xfer>>
    /\ UNCHANGED <<calcVars, inVars, outVars>>
    /\ UNCHANGED auxVars

\* variant: the limb count rounded down instead of up
N64Of_floor(bits) == bits \div Bits64

\* ((prime.bits() - 1) / 64 + 1) as u32, for bits >= 1
N64Of(bits) == ((bits - 1) \div Bits64) + 1

\* let prime = from_array32(arr); n64 = ((prime.bits() - 1) / 64 + 1) as u32.
\* With prime = 0, bits() - 1 underflows u64: a debug build panics, a release
\* build wraps and the cast to u32 leaves 0.
Derive ==
    /\ pc = "derive"
    /\ LET prime == from_array32(arr) IN
       \/ /\ Bits(prime) > 0
          /\ n64' = N64Of(Bits(prime))
          /\ pc' = "ready"
          /\ UNCHANGED <<result, panicAt>>
       \/ /\ Bits(prime) = 0
          /\ n64' = 0
          /\ pc' = "ready"
          /\ UNCHANGED <<result, panicAt>>
       \/ /\ Bits(prime) = 0
          /\ PanicAt("new_circom2")
          /\ UNCHANGED n64
    /\ UNCHANGED <<ret, exports, instance, insts, circom_version, region,
                   sanity_check, n32, i, j, arr>>
    /\ UNCHANGED <<inVars, outVars, histVars>>
    /\ UNCHANGED auxVars

\* no element conversion is in progress
NoElements == /\ modulus' = 0
              /\ witness' = <<>>
              /\ reps' = <<>>
              /\ negBranch' = FALSE

\* locals that went out of scope hold their initial values
NoInput == /\ name' = <<>>
           /\ msb' = <<0, 0>>
           /\ lsb' = <<0, 0>>
           /\ value' = 0
           /\ f_arr' = <<>>

\* ------------------------------------------- calculate_witness (per call)
\* variant: every call instantiates a fresh guest instance with fresh memory
CalculateWitness_fresh ==
    /\ pc \in {"ready", "returned", "elements"}
    /\ callNo < MaxCalls
    /\ \E sc \in BOOLEAN : sanity_check' = sc
    /\ callNo' = callNo + 1
    /\ instance' = insts + 1
    /\ insts' = insts + 1
    /\ callInst' = Append(callInst, insts + 1)
    /\ region' = ZeroRegion
    /\ pc' = "init1"
    /\ result' = "none"
    /\ xfer' = <<>>
    /\ trapped' = FALSE
    /\ afterTrap' = FALSE
    /\ w' = <<>>
    /\ wsnap' = <<>>
    /\ sizeQueried' = FALSE
    /\ ret' = <<>>
    /\ i' = 0
    /\ j' = 0
    /\ arr' = <<>>
    /\ witness_size' = 0
    /\ NoInput
    /\ UNCHANGED <<panicAt, exports, circom_version, n64, n32>>
    /\ inits' = <<>>
    /\ NoElements
    /\ UNCHANGED loadHist

\* variant: every call discovers the prime again before it initialises
CalculateWitness_rediscover ==
    /\ pc \in {"ready", "returned", "elements"}
    /\ callNo < MaxCalls
    /\ \E sc \in BOOLEAN : sanity_check' = sc
    /\ callNo' = callNo + 1
    /\ callInst' = Append(callInst, instance)
    /\ pc' = "loadFieldNumLen32"
    /\ result' = "none"
    /\ xfer' = <<>>
    /\ trapped' = FALSE
    /\ afterTrap' = FALSE
    /\ w' = <<>>
    /\ wsnap' = <<>>
    /\ sizeQueried' = FALSE
    /\ ret' = <<>>
    /\ i' = 0
    /\ j' = 0
    /\ arr' = <<>>
    /\ witness_size' = 0
    /\ NoInput
    /\ UNCHANGED <<panicAt, region, n32>>
    /\ UNCHANGED calcVars
    /\ inits' = <<>>
    /\ NoElements
    /\ UNCHANGED loadHist

\* calculate_witness(&mut self, inputs, sanity_check): entered on the loaded
\* calculator, or again after a call that returned.  It runs on self.instance.
\* The calculator keeps no n32: until this call's query the variable still
\* shows the width the guest reported last.
CalculateWitness ==
    /\ pc \in {"ready", "returned", "elements"}
    /\ callNo < MaxCalls
    /\ \E sc \in BOOLEAN : sanity_check' = sc
    /\ callNo' = callNo + 1
    /\ callInst' = Append(callInst, instance)
    /\ pc' = "init1"
    /\ result' = "none"
    /\ xfer' = <<>>
    /\ trapped' = FALSE
    /\ afterTrap' = FALSE
    /\ w' = <<>>
    /\ wsnap' = <<>>
    /\ sizeQueried' = FALSE
    /\ ret' = <<>>
    /\ i' = 0
    /\ j' = 0
    /\ arr' = <<>>
    /\ witness_size' = 0
    /\ NoInput
    /\ UNCHANGED <<panicAt, region, n32>>
    /\ UNCHANGED calcVars
    /\ inits' = <<>>
    /\ NoElements
    /\ UNCHANGED loadHist

\* sanity_check as i32
InitArg(sc) == IF sc THEN 1 ELSE 0

\* the guest call of CircomBase::init: func.call(sanity_check as i32).unwrap()
InitCall(next) ==
    /\ \/ /\ Returns("init")
          /\ inits' = Append(inits, InitArg(sanity_check))
          /\ pc' = next
          /\ UNCHANGED <<result, panicAt, trapped>>
       \/ /\ Trap("init")
          /\ inits' = Append(inits, InitArg(sanity_check))
       \/ /\ Missing("init")
          /\ UNCHANGED inits
    /\ UNCHANGED <<ret, region, sanity_check, n32, i, j, arr, callNo, callInst, xfer>>
    /\ UNCHANGED <<calcVars, inVars, outVars>>
    /\ UNCHANGED <<loadHist, elemVars>>

\* variant: calculate_witness leaves the initialisation to
\* calculate_witness_circom2
Init1_skip ==
    /\ pc = "init1"
    /\ pc' = "init2"
    /\ UNCHANGED <<result, panicAt, ret, region, sanity_check, n32, i, j, arr>>
    /\ UNCHANGED <<calcVars, inVars, outVars, histVars>>
    /\ UNCHANGED auxVars

\* calculate_witness: self.instance.init(sanity_check)?
Init1 ==
    /\ pc = "init1"
    /\ InitCall("init2")

\* calculate_witness_circom2: self.instance.init(sanity_check)?
Init2 ==
    /\ pc = "init2"
    /\ InitCall("getFieldNumLen32")

\* variant: the limb count of the calculator is set again from each query
GetFieldNumLen32_setsN64 ==
    /\ pc = "getFieldNumLen32"
    /\ \/ /\ Returns("getFieldNumLen32")
          /\ \E n \in N32s : n32' = n /\ n64' = (n + 1) \div 2
          /\ pc' = "inputs"
          /\ UNCHANGED <<result, panicAt, trapped>>
       \/ /\ Trap("getFieldNumLen32")
          /\ UNCHANGED <<n32, n64>>
       \/ /\ Missing("getFieldNumLen32")
          /\ UNCHANGED <<n32, n64>>
    /\ UNCHANGED <<ret, region, sanity_check, i, j, arr, callNo, callInst, xfer>>
    /\ UNCHANGED <<exports, instance, insts, circom_version>>
    /\ UNCHANGED <<inVars, outVars>>
    /\ UNCHANGED auxVars

\* let n32 = self.instance.get_field_num_len32()?
GetFieldNumLen32 ==
    /\ pc = "getFieldNumLen32"
    /\ \/ /\ Returns("getFieldNumLen32")
          /\ \E n \in N32s : n32' = n
          /\ pc' = "inputs"
          /\ UNCHANGED <<result, panicAt, trapped>>
       \/ /\ Trap("getFieldNumLen32")
          /\ UNCHANGED n32
       \/ /\ Missing("getFieldNumLen32")
          /\ UNCHANGED n32
    /\ UNCHANGED <<ret, region, sanity_check, i, j, arr, callNo, callInst, xfer>>
    /\ UNCHANGED <<calcVars, inVars, outVars>>
    /\ UNCHANGED auxVars

\* for (name, values) in inputs.into_iter(): the iterator yields the next
\* name, and (msb, lsb) = fnv(&name); or it is exhausted and the loop ends.
NextInput ==
    /\ pc = "inputs"
    /\ \/ /\ \E nm \in Names :
                /\ name' = nm
                /\ msb' = fnv(nm)[1]
                /\ lsb' = fnv(nm)[2]
          /\ i' = 0
          /\ pc' = "values"
       \/ /\ pc' = "getWitnessSize"
          /\ UNCHANGED <<name, msb, lsb, i>>
    /\ UNCHANGED <<result, panicAt, ret, region, sanity_check, n32, value,
                   f_arr, j, arr>>
    /\ UNCHANGED <<calcVars, outVars, histVars>>
    /\ UNCHANGED auxVars

\* for (i, value) in values.into_iter().enumerate(): the vector holds another
\* value, encoded by to_array32(&value, n32), or it is exhausted.  The values
\* of a vector are drawn when their turn comes: the host reads none ahead.
NextValue ==
    /\ pc = "values"
    /\ \/ /\ i < MaxVals
          /\ \E v \in Values :
                LET enc == to_array32(v, n32) IN
                /\ value' = v
                /\ xfer' = <<>>
                /\ \/ /\ ~enc.panic
                      /\ f_arr' = enc.res
                      /\ j' = 0
                      /\ pc' = IF n32 = 0 THEN "signal" ELSE "write"
                      /\ UNCHANGED <<result, panicAt>>
                   \/ /\ enc.panic
                      /\ PanicAt("to_array32")
                      /\ UNCHANGED <<f_arr, j>>
          /\ UNCHANGED <<name, msb, lsb, i>>
       \/ /\ pc' = "inputs"
          /\ NoInput
          /\ i' = 0
          /\ j' = 0
          /\ xfer' = <<>>
          /\ UNCHANGED <<result, panicAt>>
    /\ UNCHANGED <<ret, region, sanity_check, n32, arr, callNo, callInst, trapped,
                   afterTrap>>
    /\ UNCHANGED <<calcVars, outVars>>
    /\ UNCHANGED auxVars

\* variant: the limbs are written in their big-endian order, not reversed
WriteWord_noreverse(fa, n, jj) == fa[jj + 1]

\* the word written by iteration j of the write loop: f_arr[n32 - 1 - j]
WriteWord(fa, n, jj) == fa[n - jj]

\* self.instance.write_shared_rw_memory(j, f_arr[n32 - 1 - j])?
\* The guest stores the word at index j of its shared region.
WriteSharedRWMemory ==
    /\ pc = "write"
    /\ \/ /\ Returns("writeSharedRWMemory")
          /\ region' = [region EXCEPT ![j + 1] =
                                    AsU32(AsI32(WriteWord(f_arr, n32, j)))]
          /\ xfer' = Append(xfer, [op |-> "write", idx |-> j,
                                   val |-> WriteWord(f_arr, n32, j)])
          /\ j' = j + 1
          /\ pc' = IF j + 1 = n32 THEN "signal" ELSE "write"
          /\ UNCHANGED <<result, panicAt, trapped>>
       \/ /\ Trap("writeSharedRWMemory")
          /\ UNCHANGED <<region, xfer, j>>
       \/ /\ Missing("writeSharedRWMemory")
          /\ UNCHANGED <<region, xfer, j>>
    /\ UNCHANGED <<ret, sanity_check, n32, i, arr, callNo, callInst>>
    /\ UNCHANGED <<calcVars, inVars, outVars>>
    /\ UNCHANGED auxVars

\* variant: positions counted from 1
SignalPos_next(ii) == ii + 1

\* the position passed to setInputSignal for the value at enumerate index ii
SignalPos(ii) == ii

\* self.instance.set_input_signal(msb, lsb, i as u32)?  The adapter does
\* `let _ = func.call(..)`: a trap is dropped and Ok(()) returned.
SetInputSignal ==
    /\ pc = "signal"
    /\ \/ /\ Returns("setInputSignal")
          /\ UNCHANGED trapped
          /\ xfer' = Append(xfer, [op |-> "signal", msb |-> msb, lsb |-> lsb,
                                   pos |-> SignalPos(i)])
          /\ i' = i + 1
          /\ pc' = "values"
          /\ UNCHANGED <<result, panicAt>>
       \/ /\ Returns("setInputSignal")
          /\ trapped' = TRUE
          /\ xfer' = Append(xfer, [op |-> "signal", msb |-> msb, lsb |-> lsb,
                                   pos |-> SignalPos(i)])
          /\ i' = i + 1
          /\ pc' = "values"
          /\ UNCHANGED <<result, panicAt>>
       \/ /\ Missing("setInputSignal")
          /\ UNCHANGED <<xfer, i>>
    /\ UNCHANGED <<ret, region, sanity_check, n32, j, arr, callNo, callInst>>
    /\ UNCHANGED <<calcVars, inVars, outVars>>
    /\ UNCHANGED auxVars

\* let witness_size = self.instance.get_witness_size()?
GetWitnessSize ==
    /\ pc = "getWitnessSize"
    /\ \/ /\ Returns("getWitnessSize")
          /\ \E n \in 0 .. MaxW : 
                /\ witness_size' = n
                /\ pc' = IF n = 0 THEN "return" ELSE "getWitness"
          /\ i' = 0
          /\ sizeQueried' = TRUE
          /\ UNCHANGED <<result, panicAt, trapped>>
       \/ /\ Trap("getWitnessSize")
          /\ sizeQueried' = TRUE
          /\ UNCHANGED <<witness_size, i>>
       \/ /\ Missing("getWitnessSize")
          /\ UNCHANGED <<witness_size, i, sizeQueried>>
    /\ UNCHANGED <<ret, region, sanity_check, n32, j, arr, w, wsnap, callNo, callInst,
                   xfer>>
    /\ UNCHANGED <<calcVars, inVars>>
    /\ UNCHANGED auxVars

\* self.instance.get_witness(i)?; let mut arr = vec![0; n32].  The guest
\* fills its shared region with the limbs of witness slot i.
GetWitness ==
    /\ pc = "getWitness"
    /\ \/ /\ Returns("getWitness")
          /\ \E r \in Regions :
                /\ region' = r
                /\ wsnap' = Append(wsnap, [idx |-> i,
                                            words |-> [k \in 1 .. n32 |-> r[k]]])
          /\ arr' = Zeros(n32)
          /\ j' = 0
          /\ pc' = IF n32 = 0 THEN "push" ELSE "read"
          /\ UNCHANGED <<result, panicAt, trapped>>
       \/ /\ Trap("getWitness")
          /\ UNCHANGED <<region, wsnap, arr, j>>
       \/ /\ Missing("getWitness")
          /\ UNCHANGED <<region, wsnap, arr, j>>
    /\ UNCHANGED <<ret, sanity_check, n32, i, w, witness_size, sizeQueried,
                   callNo, callInst, xfer>>
    /\ UNCHANGED <<calcVars, inVars>>
    /\ UNCHANGED auxVars

\* variant: the words are stored in wire order, not reversed
ReadSlot_noreverse(n, jj) == jj + 1

\* the slot of arr filled by iteration jj of the read loop: arr[n32 - 1 - j]
\* (as a 1-based index)
ReadSlot(n, jj) == n - jj

\* arr[n32 - 1 - j] = self.instance.read_shared_rw_memory(j)?
\* The guest returns the word at index j of its shared region.
ReadSharedRWMemory ==
    /\ pc = "read"
    /\ \/ /\ Returns("readSharedRWMemory")
          /\ arr' = [arr EXCEPT ![ReadSlot(n32, j)] =
                                       AsU32(AsI32(region[j + 1]))]
          /\ j' = j + 1
          /\ pc' = IF j + 1 = n32 THEN "push" ELSE "read"
          /\ UNCHANGED <<result, panicAt, trapped>>
       \/ /\ Trap("readSharedRWMemory")
          /\ UNCHANGED <<arr, j>>
       \/ /\ Missing("readSharedRWMemory")
          /\ UNCHANGED <<arr, j>>
    /\ UNCHANGED <<ret, region, sanity_check, n32, i, callNo, callInst, xfer>>
    /\ UNCHANGED <<calcVars, inVars, outVars>>
    /\ UNCHANGED auxVars

\* variant: the range taken as 0..=witness_size
MoreWitness_inclusive(ii, ws) == ii < ws

\* for i in 0..witness_size: another iteration follows index ii
MoreWitness(ii, ws) == ii + 1 < ws

\* w.push(from_array32(arr)); next i
Push ==
    /\ pc = "push"
    /\ w' = Append(w, from_array32(arr))
    /\ i' = i + 1
    /\ pc' = IF MoreWitness(i, witness_size) THEN "getWitness" ELSE "return"
    /\ arr' = <<>>
    /\ j' = 0
    /\ UNCHANGED <<result, panicAt, ret, region, sanity_check, n32,
                   witness_size, wsnap, sizeQueried>>
    /\ UNCHANGED <<calcVars, inVars, histVars>>
    /\ UNCHANGED auxVars

\* Ok(w)
Return ==
    /\ pc = "return"
    /\ result' = "ok"
    /\ ret' = w
    /\ w' = <<>>
    /\ pc' = "returned"
    /\ UNCHANGED <<panicAt, region, sanity_check, n32, i, j, arr,
                   witness_size, wsnap, sizeQueried>>
    /\ UNCHANGED <<calcVars, inVars, histVars>>
    /\ UNCHANGED auxVars

\* ------------------------------------------- calculate_witness_element
\* variant: the magnitude is passed on whatever the sign
Normalize_abs(wv, p) == Abs(wv)

\* variant: every value is subtracted from the modulus
Normalize_always(wv, p) == p - Abs(wv)

\* if w.sign() == Sign::Minus { modulus.into() - w.abs().to_biguint().unwrap() }
\* else { w.to_biguint().unwrap() }: the BigUint handed to the field
Normalize(wv, p) == IF wv < 0 THEN p - Abs(wv) ELSE wv

\* the BigUint subtraction panics when its result would be negative
NormalizePanics(wv, p) == wv < 0 /\ Abs(wv) > p

\* variant: the value becomes the representative without reduction
FieldFrom_raw(x, p) == x

\* E::ScalarField::from(w): the element's canonical representative is the
\* BigUint reduced modulo the field modulus
FieldFrom(x, p) == x % p

\* witness.into_iter().map(|w| ..).collect(): the closure converts the raw
\* values in order; out holds what is converted so far.  A panic of the
\* closure ends the conversion.
RECURSIVE Collect(_, _, _)
Collect(raw, p, out) ==
    IF Len(out.witness) = Len(raw) THEN out
    ELSE LET wv == raw[Len(out.witness) + 1] IN
         IF NormalizePanics(wv, p) THEN [out EXCEPT !.panic = TRUE, !.neg = TRUE]
         ELSE Collect(raw, p,
                      [panic |-> FALSE,
                       neg |-> (out.neg \/ wv < 0),
                       reps |-> Append(out.reps, Normalize(wv, p)),
                       witness |-> Append(out.witness,
                                          FieldFrom(Normalize(wv, p), p))])

\* calculate_witness_element: the witness returned by self.calculate_witness
\* is converted to field elements and returned; modulus is
\* E::ScalarField::MODULUS.  Whether a computation was entered through this
\* wrapper shows only once calculate_witness has returned.
CalculateWitnessElement ==
    /\ pc = "returned"
    /\ \E p \in Moduli :
          LET out == Collect(ret, p, [panic |-> FALSE, neg |-> FALSE,
                                      reps |-> <<>>, witness |-> <<>>]) IN
          /\ modulus' = p
          /\ witness' = out.witness
          /\ reps' = out.reps
          /\ negBranch' = out.neg
          /\ \/ /\ ~out.panic
                /\ pc' = "elements"
                /\ UNCHANGED <<result, panicAt>>
             \/ /\ out.panic
                /\ PanicAt("calculate_witness_element")
    /\ UNCHANGED <<ret, region, sanity_check, n32, i, j, arr, inits,
                   rawPrimeCalls, versionReturned>>
    /\ UNCHANGED <<calcVars, inVars, outVars, histVars>>

Next ==
    \/ FromModule
    \/ GetVersion
    \/ LoadFieldNumLen32
    \/ GetRawPrime
    \/ ReadPrime
    \/ Derive
    \/ CalculateWitness
    \/ Init1
    \/ Init2
    \/ GetFieldNumLen32
    \/ NextInput
    \/ NextValue
    \/ WriteSharedRWMemory
    \/ SetInputSignal
    \/ GetWitnessSize
    \/ GetWitness
    \/ ReadSharedRWMemory
    \/ Push
    \/ Return
    \/ CalculateWitnessElement

Spec == Init /\ [][Next]_vars

\* The closure of calculate_witness_element taken by itself: it is applied to
\* raw values of either sign, beyond those calculate_witness returns.
NormInit ==
    /\ pc = "returned"
    /\ result = "ok"
    /\ panicAt = "none"
    /\ ret \in RawWitnesses
    /\ exports = AllExports
    /\ instance = 1
    /\ insts = 1
    /\ circom_version = VersionDefault
    /\ n64 = 1
    /\ region = ZeroRegion
    /\ sanity_check = FALSE
    /\ n32 = 0
    /\ name = <<>>
    /\ msb = <<0, 0>>
    /\ lsb = <<0, 0>>
    /\ i = 0
    /\ value = 0
    /\ f_arr = <<>>
    /\ j = 0
    /\ arr = <<>>
    /\ w = <<>>
    /\ witness_size = Len(ret)
    /\ callNo = 1
    /\ callInst = <<1>>
    /\ xfer = <<>>
    /\ trapped = FALSE
    /\ afterTrap = FALSE
    /\ wsnap = <<>>
    /\ sizeQueried = TRUE
    /\ inits = <<0, 0>>
    /\ rawPrimeCalls = 1
    /\ versionReturned = 0
    /\ modulus = 0
    /\ witness = <<>>
    /\ reps = <<>>
    /\ negBranch = FALSE

NormNext == CalculateWitnessElement

NormSpec == NormInit /\ [][NormNext]_vars

\* ----------------------------------------------------------------- claims
\* limb k (0 = most significant) of the n-limb big-endian encoding of v
LimbBE(v, n, k) == (v \div Pow(Radix, n - 1 - k)) % Radix

\* the first n words of r read least-significant word first
RECURSIVE LEValue(_, _)
LEValue(r, n) == IF n = 0 THEN 0 ELSE r[n] * Pow(Radix, n - 1) + LEValue(r, n - 1)

InRange(v, n) == 0 <= v /\ v < Pow(Radix, n)
InputPcs == {"inputs", "values", "write", "signal"}

\* C1: every value v with 0 <= v < Radix^w is encoded by to_array32 into
\* exactly w limbs that from_array32 decodes back to v; the encoder fails
\* only on values outside that range.
C1_RoundTrip ==
    /\ pc \in {"write", "signal"} =>
          /\ Len(f_arr) = n32
          /\ from_array32(f_arr) = value
    /\ (pc = "panicked" /\ panicAt = "to_array32") => ~InRange(value, n32)

C1_Witness ==
    /\ pc = "write"
    /\ n32 = MaxN32
    /\ value = Radix
    /\ f_arr[n32] = 0
    /\ f_arr[n32 - 1] = 1

\* C2: when setInputSignal is about to be invoked for an in-range value,
\* word j of the shared region holds limb n32-1-j of the value's big-endian
\* encoding, so the region read least-significant word first is the value.
C2_InputWritePath ==
    pc = "signal" =>
        /\ InRange(value, n32)
        /\ \A jj \in 0 .. (n32 - 1) :
              region[jj + 1] = LimbBE(value, n32, n32 - 1 - jj)
        /\ LEValue(region, n32) = value

C2_Witness ==
    /\ pc = "signal"
    /\ n32 = MaxN32
    /\ value = 1
    /\ region[1] = 1
    /\ region[MaxN32] = 0

\* C3: the i-th value of the witness is the sum over j of region[j] *
\* Radix^j of the region words the guest left at its getWitness(i) call.
C3_WitnessReadPath ==
    /\ Len(w) <= Len(wsnap)
    /\ \A k \in 1 .. Len(w) : w[k] = LEValue(wsnap[k].words, n32)
    /\ result = "ok" =>
          /\ Len(ret) = Len(wsnap)
          /\ \A k \in 1 .. Len(ret) :
                /\ wsnap[k].idx = k - 1
                /\ ret[k] = LEValue(wsnap[k].words, n32)

C3_Witness ==
    /\ result = "ok"
    /\ n32 = MaxN32
    /\ Len(ret) = 2
    /\ ret[1] = 1
    /\ ret[2] = Radix
    /\ wsnap[1].words[1] = 1

\* C4: each input value is transferred by n32 writeSharedRWMemory calls at
\* indices 0..n32-1 in order, then one setInputSignal(msb, lsb, i) with
\* (msb, lsb) the address of the value's name and i the number of values of
\* that name transferred before it; no write of a later value precedes it.
C4_WriteThenSignal ==
    /\ pc = "write" =>
          /\ j < n32
          /\ Len(xfer) = j
          /\ \A k \in 1 .. Len(xfer) :
                xfer[k].op = "write" /\ xfer[k].idx = k - 1
    /\ pc = "signal" =>
          /\ Len(xfer) = n32
          /\ \A k \in 1 .. Len(xfer) :
                xfer[k].op = "write" /\ xfer[k].idx = k - 1
    /\ (pc = "values" /\ xfer # <<>>) =>
          /\ Len(xfer) = n32 + 1
          /\ \A k \in 1 .. n32 :
                xfer[k].op = "write" /\ xfer[k].idx = k - 1
          /\ xfer[n32 + 1].op = "signal"
          /\ xfer[n32 + 1].msb = fnv(name)[1]
          /\ xfer[n32 + 1].lsb = fnv(name)[2]
          /\ xfer[n32 + 1].pos = i - 1
    /\ (pc = "values" /\ xfer = <<>>) => i = 0

C4_Witness ==
    /\ pc = "values"
    /\ n32 = MaxN32
    /\ i = 2
    /\ Len(xfer) = n32 + 1
    /\ xfer[n32 + 1].pos = 1

\* C5: a successful call returns as many values as getWitnessSize reported,
\* from getWitness calls at indices 0..W-1 in increasing order; and while
\* inputs are being loaded neither getWitnessSize nor getWitness has been
\* called.
C5_WitnessLengthAndPhases ==
    /\ \A k \in 1 .. Len(wsnap) : wsnap[k].idx = k - 1
    /\ wsnap # <<>> => sizeQueried /\ Len(wsnap) <= witness_size
    /\ result = "ok" =>
          /\ sizeQueried
          /\ Len(ret) = witness_size
          /\ Len(wsnap) = witness_size
    /\ pc \in InputPcs => ~sizeQueried /\ wsnap = <<>>

C5_Witness ==
    /\ result = "ok"
    /\ sizeQueried
    /\ witness_size = MaxW
    /\ Len(ret) = MaxW
    /\ wsnap[MaxW].idx = MaxW - 1

\* C6 (as claimed): a guest trap stops the computation at that call: the
\* run has failed, no guest call follows the trap and no witness is returned.
C6_TrapAborts ==
    trapped =>
        /\ pc = "panicked"
        /\ result = "panic"
        /\ ~afterTrap
        /\ ret = <<>>

C8_MissingExportFailsLoad ==
    "getWitnessSize" \notin exports => (pc # "ready" /\ callNo = 0)

\* C8 (amended): the lack of getWitnessSize does not fail the load; it
\* surfaces inside calculate_witness, as the panic of the export lookup made
\* once input loading is over, so that no witness size is obtained, no
\* getWitness call is made and no witness is returned.
C8_MissingExportPanicsInCall ==
    "getWitnessSize" \notin exports =>
        /\ result # "ok"
        /\ ret = <<>>
        /\ ~sizeQueried
        /\ wsnap = <<>>
        /\ pc \notin {"getWitness", "read", "push", "return", "returned"}
        /\ panicAt = "getWitnessSize" =>
              pc = "panicked" /\ result = "panic" /\ callNo >= 1

C8_Witness ==
    /\ "getWitnessSize" \notin exports
    /\ panicAt = "getWitnessSize"
    /\ pc = "panicked"
    /\ callNo = 1
    /\ n32 = MaxN32

C10_TruncatesSilently ==
    /\ (pc = "panicked" /\ panicAt = "to_array32" /\ n32 >= 1) =>
          value < Pow(Radix, n32)
    /\ (pc \in {"write", "signal"} /\ value >= Pow(Radix, n32)) =>
          \A k \in 0 .. (n32 - 1) :
              f_arr[k + 1] = LimbBE(value % Pow(Radix, n32), n32, k)

\* C10 (amended): to_array32 does not complete on a value >= Radix^width:
\* it panics, no limb array is returned, nothing is written to the guest
\* for that value and the call returns no witness.
C10_OverflowPanics ==
    value >= Pow(Radix, n32) =>
        /\ pc = "panicked"
        /\ panicAt = "to_array32"
        /\ result = "panic"
        /\ xfer = <<>>
        /\ ret = <<>>

C10_Witness ==
    /\ pc = "panicked"
    /\ panicAt = "to_array32"
    /\ n32 = MaxN32
    /\ value = Pow(Radix, n32)

\* --------------------------------------------------------- protocol states
LoadPcs == {"getVersion", "loadFieldNumLen32", "getRawPrime", "readPrime",
            "derive"}

\* the protocol state the host is in: Initialized once the guest instance
\* exists, PrimeDiscovered once n64 is derived, InputsLoaded once every input
\* is written and signalled, Executed once the witness size is known,
\* Extracted once the witness is returned
Phase ==
    CASE pc = "unloaded" -> "Unloaded"
      [] pc \in LoadPcs -> "Initialized"
      [] pc \in {"ready", "init1", "init2", "getFieldNumLen32"} \cup InputPcs
            -> "PrimeDiscovered"
      [] pc = "getWitnessSize" -> "InputsLoaded"
      [] pc \in {"getWitness", "read", "push", "return"} -> "Executed"
      [] pc \in {"returned", "elements"} -> "Extracted"
      [] OTHER -> "Failed"

PhaseOrder == {<<"Unloaded", "Initialized">>,
               <<"Initialized", "PrimeDiscovered">>,
               <<"PrimeDiscovered", "InputsLoaded">>,
               <<"InputsLoaded", "Executed">>,
               <<"Executed", "Extracted">>}

\* a step stays in its state, moves to the next one, fails, or starts the
\* next computation of the loaded calculator from PrimeDiscovered
PhaseStep ==
    \/ Phase' = Phase
    \/ <<Phase, Phase'>> \in PhaseOrder
    \/ Phase' = "Failed"
    \/ /\ Phase = "Extracted"
       /\ Phase' = "PrimeDiscovered"
       /\ callNo' = callNo + 1

\* prime discovery is made once per load (one getRawPrime, n32 words read
\* back), and both writes and setInputSignal come after init
GuestCallOrder ==
    /\ rawPrimeCalls <= 1
    /\ Phase \notin {"Unloaded", "Initialized", "Failed"} => rawPrimeCalls = 1
    /\ pc = "ready" => i = n32
    /\ (pc \in {"write", "signal"} \/ xfer # <<>>) => Len(inits) >= 1

\* from each protocol state but the terminal ones a step into Failed exists
FailureEnabled ==
    /\ pc = "unloaded" => ENABLED (FromModule /\ pc' = "failed")
    /\ pc = "loadFieldNumLen32" =>
          ENABLED (LoadFieldNumLen32 /\ pc' = "panicked")
    /\ pc = "init1" => ENABLED (Init1 /\ pc' = "panicked")
    /\ pc = "getWitnessSize" => ENABLED (GetWitnessSize /\ pc' = "panicked")
    /\ pc = "getWitness" => ENABLED (GetWitness /\ pc' = "panicked")

C12_WidthsConstant ==
    [][Phase \notin {"Unloaded", "Initialized"} =>
          (n64' = n64 /\ n32' = n32)]_vars

\* C12 (amended): n64 keeps the value derived at load through every
\* calculate_witness call.  n32 is not kept: each computation takes it from
\* its own getFieldNumLen32 query, the only step that changes it, and sizes
\* every input write and every witness read of that computation with it.
C12_N64ConstantN32PerCall ==
    /\ [][Phase \notin {"Unloaded", "Initialized"} =>
            /\ n64' = n64
            /\ n32' # n32 => (pc = "getFieldNumLen32" /\ pc' = "inputs")]_vars
    /\ [](/\ pc = "signal" => (Len(f_arr) = n32 /\ Len(xfer) = n32)
          /\ pc = "push" => (Len(arr) = n32 /\ j = n32))

C12_Witness ==
    /\ pc = "returned"
    /\ callNo = MaxCalls
    /\ n64 = 1
    /\ n32 = MaxN32
    /\ Len(ret) = MaxW
    /\ Len(wsnap[MaxW].words) = MaxN32

\* ceil(a / b) for a >= 0, b >= 1
CeilDiv(a, b) == (a + b - 1) \div b

\* C13: at load the prime is the value of the n32 words the guest left in
\* the shared region after getRawPrime, word j being limb n32-1-j, and for
\* every prime >= 1 n64 = ceil(bit_length(prime) / Bits64).
C13_PrimeDiscovery ==
    /\ pc = "derive" =>
          /\ \A jj \in 0 .. (n32 - 1) : arr[n32 - jj] = region[jj + 1]
          /\ from_array32(arr) = LEValue(region, n32)
    /\ pc = "ready" =>
          LET prime == LEValue(region, n32) IN
          prime >= 1 => n64 = CeilDiv(Bits(prime), Bits64)

C13_Witness ==
    /\ pc = "ready"
    /\ n32 = MaxN32
    /\ region[1] = Radix - 1
    /\ region[MaxN32] = 0
    /\ LEValue(region, n32) = Radix - 1
    /\ n64 = 1

\* reference values of the 64-bit FNV-1a hash, most significant 16 bits first:
\* "a" is 0xaf63dc4c8601ec8c, "ab" is 0x089c4407b545986a
Fnv1a64(nm) ==
    CASE nm = <<97>> -> <<44899, 56396, 34305, 60556>>
      [] nm = <<97, 98>> -> <<2204, 17415, 46405, 39018>>

\* C14: for the current name, msb * 2^32 + lsb is the 64-bit FNV-1a hash of
\* its bytes and both halves are 32-bit values; the pair passed to
\* setInputSignal is that same pair for every value and every call.
C14_SignalAddress ==
    name # <<>> =>
        /\ \A k \in 1 .. 2 : msb[k] \in 0 .. (FnvMod - 1)
                             /\ lsb[k] \in 0 .. (FnvMod - 1)
        /\ <<msb[1], msb[2], lsb[1], lsb[2]>> = Fnv1a64(name)
        /\ Len(xfer) = n32 + 1 =>
              <<xfer[n32 + 1].msb[1], xfer[n32 + 1].msb[2],
                xfer[n32 + 1].lsb[1], xfer[n32 + 1].lsb[2]>> = Fnv1a64(name)

C14_Witness ==
    /\ pc = "values"
    /\ callNo = MaxCalls
    /\ name = <<97, 98>>
    /\ Len(xfer) = n32 + 1
    /\ xfer[n32 + 1].msb = <<2204, 17415>>
    /\ xfer[n32 + 1].lsb = <<46405, 39018>>

\* C15: without a getVersion export the load does not fail on it and the
\* calculator's version is 1; with the export the version is the value the
\* guest's getVersion returned.
C15_VersionDefault ==
    /\ "getVersion" \notin exports => panicAt # "getVersion"
    /\ (instance # 0 /\ pc # "getVersion" /\ panicAt # "getVersion") =>
          IF "getVersion" \in exports
          THEN versionReturned \in Versions /\ circom_version = versionReturned
          ELSE versionReturned = 0 /\ circom_version = 1

C15_Witness ==
    /\ pc = "ready"
    /\ "getVersion" \notin exports
    /\ circom_version = 1
    /\ n64 = 1

\* C16: a raw value w with 0 <= w < modulus becomes the element with
\* canonical representative w (it is handed to the field unchanged), and
\* normalising that representative again gives the same element.
C16_NormalizationIdempotent ==
    \A k \in 1 .. Len(witness) :
        (0 <= ret[k] /\ ret[k] < modulus) =>
            /\ reps[k] = ret[k]
            /\ witness[k] = ret[k]
            /\ ~NormalizePanics(witness[k], modulus)
            /\ FieldFrom(Normalize(witness[k], modulus), modulus) = witness[k]

C16_Witness ==
    /\ pc = "elements"
    /\ modulus = 5
    /\ Len(ret) = MaxW
    /\ ret[1] = Pow(Radix, MaxN32) - 1
    /\ ret[MaxW] = 0
    /\ witness = ret

\* C17: calculate_witness_element returns one element per raw witness value,
\* in the same order, each with a canonical representative r, 0 <= r <
\* modulus, congruent to the raw value, also for raw values >= modulus.
C17_NormalizedRange ==
    /\ Len(witness) <= Len(ret)
    /\ pc = "elements" => Len(witness) = Len(ret)
    /\ \A k \in 1 .. Len(witness) :
          /\ 0 <= witness[k]
          /\ witness[k] < modulus
          /\ (ret[k] - witness[k]) % modulus = 0

C17_Witness ==
    /\ pc = "elements"
    /\ modulus = 3
    /\ Len(ret) = MaxW
    /\ ret[1] = Pow(Radix, MaxN32) - 1
    /\ ret[MaxW] = 1
    /\ witness[1] = Pow(Radix, MaxN32) - 1 - modulus
    /\ witness[MaxW] = 1

C19_NonNegativeWitness ==
    /\ \A k \in 1 .. Len(w) : 0 <= w[k] /\ w[k] < Pow(Radix, n32)
    /\ result = "ok" =>
          \A k \in 1 .. Len(ret) : 0 <= ret[k] /\ ret[k] < Pow(Radix, n32)
    /\ ~negBranch

C19_Witness ==
    /\ pc = "elements"
    /\ n32 = MaxN32
    /\ Len(ret) = MaxW
    /\ ret[1] = Pow(Radix, MaxN32) - 1
    /\ AsI32(wsnap[1].words[1]) < 0
    /\ Len(witness) = MaxW

\* C20: a calculate_witness call invokes init twice, each time with the
\* caller's sanity_check flag as 0 or 1, and both invocations are made
\* before the getFieldNumLen32 query and before any writeSharedRWMemory or
\* setInputSignal of the call.
C20_InitTwice ==
    LET flag == IF sanity_check THEN 1 ELSE 0 IN
    /\ pc = "init1" => inits = <<>>
    /\ pc = "init2" => inits = <<flag>>
    /\ (callNo >= 1 /\ pc \notin {"init1", "init2", "panicked"}) =>
          inits = <<flag, flag>>
    /\ xfer # <<>> => Len(inits) = 2

C20_Witness ==
    /\ pc = "returned"
    /\ callNo = MaxCalls
    /\ sanity_check
    /\ inits = <<1, 1>>
    /\ Len(ret) = MaxW

====
